---- MODULE Spec2Model ----
(***************************************************************************)
(* Model of the Docker API proxy of portainer (api/http/proxy).            *)
(*                                                                         *)
(*   transport.go : proxyTransport, the dispatcher (proxyDockerRequest,    *)
(*                  proxyVolumeRequest) and the three strategies           *)
(*                  restrictedOperation, rewriteOperation and              *)
(*                  administratorOperation;                                *)
(*   filter.go    : filterVolumeList, filterContainerList and              *)
(*                  filterServiceList;                                     *)
(*   portainer.go : the data types and the collaborators' interfaces.      *)
(*                                                                         *)
(* Two specifications:                                                     *)
(*   Spec       : the proxy handling requests one collaborator call at a   *)
(*                time, while the resource-control registry changes;       *)
(*   FilterSpec : the list filters applied to bounded inputs.              *)
(***************************************************************************)
EXTENDS Integers, Sequences, FiniteSets, TLC

(***************************************************************************)
(* Data types (portainer.go)                                               *)
(***************************************************************************)

\* UserRole values.
AdministratorRole == 1
StandardUserRole == 2

\* The user, team and resource identifiers the model draws from.
UserIDs == {1, 2}
TeamIDs == {1, 2}
ResourceIDs == {"v1", "v2"}

\* The longest document list handed to a list filter.
MaxLen == 2

\* The most records the registry of Spec holds.
MaxControls == 1

\* A nil pointer, a nil interface value.
Nil == [nil |-> TRUE]

\* ResourceControl: a Docker resource with the users and teams allowed on it.
ResourceControl(resourceID, users, teams) == [ResourceID |-> resourceID, Users |-> users, Teams |-> teams]

\* TokenData: the identity a request's context carries.
TokenData(id, role) == [ID |-> id, Role |-> role]

(***************************************************************************)
(* Helpers of the proxy package that filter.go and transport.go call       *)
(***************************************************************************)

\* The identifier field of each kind of document.
volumeIdentifier == "Name"
containerIdentifier == "Id"
serviceIdentifier == "ID"

ErrDockerVolumeIdentifierNotFound == "ErrDockerVolumeIdentifierNotFound"
ErrDockerContainerIdentifierNotFound == "ErrDockerContainerIdentifierNotFound"
ErrDockerServiceIdentifierNotFound == "ErrDockerServiceIdentifierNotFound"

\* The nil error.
NoError == "nil"

RECURSIVE getResourceControlByResourceID(_, _)
\* The first record of resourceControls for resourceID, or nil.
getResourceControlByResourceID(resourceID, resourceControls) ==
    IF resourceControls = <<>> THEN Nil
    ELSE IF Head(resourceControls).ResourceID = resourceID THEN Head(resourceControls)
    ELSE getResourceControlByResourceID(resourceID, Tail(resourceControls))

\* The access decision: no record, or the user listed, or one of their teams.
canUserAccessResource(userID, userTeamIDs, resourceControl) ==
    \/ resourceControl = Nil
    \/ userID \in resourceControl.Users
    \/ userTeamIDs \cap resourceControl.Teams # {}

\* The ownership decoration of a document: the record's users and teams.
Decoration(resourceControl) == [ResourceControl |-> [Users |-> resourceControl.Users, Teams |-> resourceControl.Teams]]

\* The document with the ownership of resourceControl merged into it.
decorateObject(object, resourceControl) ==
    [f \in DOMAIN object \cup {"Portainer"} |-> IF f = "Portainer" THEN Decoration(resourceControl) ELSE object[f]]

\* object[field] == nil: the field is absent.
FieldIsNil(object, field) == field \notin DOMAIN object

(***************************************************************************)
(* filter.go                                                               *)
(***************************************************************************)

\* A filter's return value: the list (nil on error) and the error.
FilterResult(data, isNil, err) == [data |-> data, isNil |-> isNil, err |-> err]

\* A faulty variant of filterObject: a document with a record is kept without
\* the access decision.
filterObject_NoAccessCheck(filtered, object, resourceControl, userID, userTeamIDs) ==
    IF resourceControl = Nil THEN Append(filtered, object)
    ELSE Append(filtered, decorateObject(object, resourceControl))

\* A faulty variant of filterObject: the test of line 19 is inverted, and a
\* document without a record is dropped.
filterObject_DropPublic(filtered, object, resourceControl, userID, userTeamIDs) ==
    IF resourceControl # Nil /\ canUserAccessResource(userID, userTeamIDs, resourceControl)
    THEN Append(filtered, decorateObject(object, resourceControl))
    ELSE filtered

\* A faulty variant of filterObject: a kept document is put in front of the
\* list.
filterObject_Prepend(filtered, object, resourceControl, userID, userTeamIDs) ==
    IF resourceControl = Nil THEN <<object>> \o filtered
    ELSE IF resourceControl # Nil /\ canUserAccessResource(userID, userTeamIDs, resourceControl)
         THEN <<decorateObject(object, resourceControl)>> \o filtered
         ELSE filtered

\* A faulty variant of filterObject: a document whose record allows the user
\* is kept as it is.
filterObject_NoDecoration(filtered, object, resourceControl, userID, userTeamIDs) ==
    IF resourceControl = Nil THEN Append(filtered, object)
    ELSE IF resourceControl # Nil /\ canUserAccessResource(userID, userTeamIDs, resourceControl)
         THEN Append(filtered, object)
         ELSE filtered

\* A faulty variant of filterObject: a document that already carries an
\* ownership decoration is dropped.
filterObject_DropDecorated(filtered, object, resourceControl, userID, userTeamIDs) ==
    IF "Portainer" \in DOMAIN object THEN filtered
    ELSE IF resourceControl = Nil THEN Append(filtered, object)
    ELSE IF resourceControl # Nil /\ canUserAccessResource(userID, userTeamIDs, resourceControl)
         THEN Append(filtered, decorateObject(object, resourceControl))
         ELSE filtered

\* The if / else-if of the loop body: the list after object, whose record is
\* resourceControl, has been looked at.
filterObject(filtered, object, resourceControl, userID, userTeamIDs) ==
    IF resourceControl = Nil THEN Append(filtered, object)
    ELSE IF resourceControl # Nil /\ canUserAccessResource(userID, userTeamIDs, resourceControl)
         THEN Append(filtered, decorateObject(object, resourceControl))
         ELSE filtered

RECURSIVE filterLoop_SkipMissing(_, _, _, _, _, _, _)
\* A faulty variant of filterLoop: a document without its identifier is
\* skipped.
filterLoop_SkipMissing(identifier, errNotFound, objects, filtered, resourceControls, userID, userTeamIDs) ==
    IF objects = <<>> THEN FilterResult(filtered, FALSE, NoError)
    ELSE LET object == Head(objects) IN
         IF FieldIsNil(object, identifier)
         THEN filterLoop_SkipMissing(identifier, errNotFound, Tail(objects), filtered, resourceControls, userID, userTeamIDs)
         ELSE LET resourceControl == getResourceControlByResourceID(object[identifier], resourceControls)
                  kept == filterObject(filtered, object, resourceControl, userID, userTeamIDs)
              IN filterLoop_SkipMissing(identifier, errNotFound, Tail(objects), kept, resourceControls, userID, userTeamIDs)

RECURSIVE filterLoop(_, _, _, _, _, _, _)
\* The range loop of a list filter: objects is what is left of the input,
\* filtered the documents kept so far.
filterLoop(identifier, errNotFound, objects, filtered, resourceControls, userID, userTeamIDs) ==
    IF objects = <<>> THEN FilterResult(filtered, FALSE, NoError)
    ELSE LET object == Head(objects) IN
         IF FieldIsNil(object, identifier) THEN FilterResult(<<>>, TRUE, errNotFound)
         ELSE LET resourceControl == getResourceControlByResourceID(object[identifier], resourceControls)
                  kept == filterObject(filtered, object, resourceControl, userID, userTeamIDs)
              IN filterLoop(identifier, errNotFound, Tail(objects), kept, resourceControls, userID, userTeamIDs)

filterVolumeList(volumeData, resourceControls, userID, userTeamIDs) ==
    filterLoop(volumeIdentifier, ErrDockerVolumeIdentifierNotFound, volumeData, <<>>, resourceControls, userID, userTeamIDs)

filterContainerList(containerData, resourceControls, userID, userTeamIDs) ==
    filterLoop(containerIdentifier, ErrDockerContainerIdentifierNotFound, containerData, <<>>, resourceControls, userID, userTeamIDs)

filterServiceList(serviceData, resourceControls, userID, userTeamIDs) ==
    filterLoop(serviceIdentifier, ErrDockerServiceIdentifierNotFound, serviceData, <<>>, resourceControls, userID, userTeamIDs)

(***************************************************************************)
(* Requests, responses and the engine                                      *)
(***************************************************************************)

\* A (response, error) pair, as every function of transport.go returns.
Result(response, err) == [response |-> response, err |-> err]

\* No result yet.
Pending == Result(Nil, "pending")

\* An http.Response: its status, its decoded body (a list of documents) and
\* the number of the engine call that produced it (0: made by the proxy).
Response(status, body, serial) == [StatusCode |-> status, Body |-> body, Serial |-> serial]

StatusOK == 200
StatusForbidden == 403

ErrTokenData == "ErrMissingContextData"
ErrTeamService == "ErrTeamService"
ErrResourceControlService == "ErrResourceControlService"
ErrEngineTransport == "ErrEngineTransport"

\* The synthetic forbidden response, made without the engine.
writeAccessDeniedResponse == Result(Response(StatusForbidden, <<>>, 0), NoError)

\* A volume document of the engine; Absent stands for a document that lacks
\* its identifier field.
Absent == "(absent)"
Document(identifier, id) == IF id = Absent THEN [Driver |-> "local"] ELSE (identifier :> id) @@ [Driver |-> "local"]

\* A request path, as its segments: /volumes/v1 is <<"volumes", "v1">>.
HasPrefix(path, segment) == path # <<>> /\ Head(path) = segment

\* path.Base: the last segment.
Base(path) == IF path = <<>> THEN "/" ELSE path[Len(path)]

MethodGet == "GET"

\* The requests the model sends: method and path.
MethodPaths ==
    { <<"GET", <<"containers", "json">> >>, <<"GET", <<"services">> >>, <<"GET", <<"info">> >>,
      <<"POST", <<"volumes", "create">> >>, <<"POST", <<"volumes", "prune">> >>,
      <<"GET", <<"volumes">> >>,
      <<"GET", <<"volumes", "v1">> >>, <<"DELETE", <<"volumes", "v1">> >>,
      <<"GET", <<"volumes", "v2">> >>, <<"DELETE", <<"volumes", "v2">> >> }

\* The token data of a request's context: none, or a user and their role.
Tokens == {Nil} \cup {TokenData(1, AdministratorRole), TokenData(1, StandardUserRole), TokenData(2, StandardUserRole)}

Requests == {[Method |-> mp[1], Path |-> mp[2], Token |-> t] : mp \in MethodPaths, t \in Tokens}

\* The volume lists the engine may answer a list request with.
EngineVolumeLists ==
    { <<Document(volumeIdentifier, "v1"), Document(volumeIdentifier, "v2")>>,
      <<Document(volumeIdentifier, "v2"), Document(volumeIdentifier, Absent)>> }

\* The bodies the engine may answer req with.
EngineBodies(req) ==
    IF req.Path = <<"volumes">> THEN EngineVolumeLists
    ELSE IF HasPrefix(req.Path, "volumes") /\ Len(req.Path) = 2 /\ req.Method = MethodGet /\ Base(req.Path) \in ResourceIDs
         THEN {<<Document(volumeIdentifier, Base(req.Path))>>}
         ELSE {<<>>}

\* What one engine round trip may return: a transport error or a response.
EngineOutcomes(req, serial) ==
    {Result(Nil, ErrEngineTransport)} \cup {Result(Response(StatusOK, body, serial), NoError) : body \in EngineBodies(req)}

(***************************************************************************)
(* The operations rewriteOperation is given as callbacks                   *)
(***************************************************************************)

RECURSIVE decorateVolumeList(_, _)
\* The administrator's view of a list: every document, decorated where a
\* record exists; a document without its identifier fails the operation.
decorateVolumeList(volumeData, resourceControls) ==
    IF volumeData = <<>> THEN FilterResult(<<>>, FALSE, NoError)
    ELSE LET object == Head(volumeData) IN
         IF FieldIsNil(object, volumeIdentifier) THEN FilterResult(<<>>, TRUE, ErrDockerVolumeIdentifierNotFound)
         ELSE LET resourceControl == getResourceControlByResourceID(object[volumeIdentifier], resourceControls)
                  rest == decorateVolumeList(Tail(volumeData), resourceControls)
                  first == IF resourceControl = Nil THEN object ELSE decorateObject(object, resourceControl)
              IN IF rest.isNil THEN rest ELSE FilterResult(<<first>> \o rest.data, FALSE, NoError)

\* The list as the caller of operationContext may see it.
filteredVolumeData(volumeData, operationContext) ==
    IF operationContext.isAdmin
    THEN decorateVolumeList(volumeData, operationContext.resourceControls)
    ELSE filterVolumeList(volumeData, operationContext.resourceControls, operationContext.userID, operationContext.userTeamIDs)

\* The callback of a list request: the response's body is replaced by the
\* filtered list; an error of the filter is the callback's error.
volumeListOperation(request, response, operationContext) ==
    LET res == filteredVolumeData(response.Body, operationContext) IN
    IF res.err # NoError THEN Result(response, res.err)
    ELSE Result([response EXCEPT !.Body = res.data], NoError)

\* The callback of an inspect request: the document is filtered as a list of
\* one, and an empty result becomes the forbidden response.
volumeInspectOperation(request, response, operationContext) ==
    LET res == filteredVolumeData(response.Body, operationContext) IN
    IF res.err # NoError THEN Result(response, res.err)
    ELSE IF res.data = <<>> THEN Result([response EXCEPT !.StatusCode = StatusForbidden, !.Body = <<>>], NoError)
    ELSE Result([response EXCEPT !.Body = res.data], NoError)

\* operation(request, response, operationContext), by the callback's name.
ApplyOperation(operation, request, response, operationContext) ==
    IF operation = "volumeListOperation" THEN volumeListOperation(request, response, operationContext)
    ELSE volumeInspectOperation(request, response, operationContext)

(***************************************************************************)
(* State                                                                   *)
(***************************************************************************)

VARIABLES
    registry,     \* ResourceControlService: the volume resource controls
    memberships,  \* TeamService: the team ids of each user
    pc,           \* where the request being handled is
    request,      \* the request being handled
    frame,        \* the strategy invocation in progress and its locals
    engine,       \* the results of the engine round trips of this request
    log,          \* the collaborators called for this request, in order
    returned,     \* the strategy invocations of this request that returned
    response,     \* what proxyDockerRequest returned for this request
    filter        \* FilterSpec: a list filter's input and its return value

vars == <<registry, memberships, pc, request, frame, engine, log, returned, response, filter>>

proxyVars == <<registry, memberships, pc, request, frame, engine, log, returned, response>>

\* The records a registry may hold: the model's users and teams are those
\* of Tokens and Memberships.
RegistryControls == {ResourceControl("v2", u, t) : u \in {{}, {2}}, t \in {{}, {1}}} \cup {ResourceControl("v1", {2}, {})}

\* The team memberships the model starts from.
Memberships == {[u \in UserIDs |-> {u}]}

NoRequest == [Method |-> "", Path |-> <<>>, Token |-> Nil]

NoFrame == [fn |-> "none", cont |-> "none", operation |-> "none", resourceID |-> "", tokenData |-> Nil, isAdmin |-> FALSE, userTeamIDs |-> {}, resourceControls |-> <<>>, read |-> FALSE, response |-> Nil, first |-> 0]

\* A fresh invocation of strategy fn, whose result the caller uses as cont
\* says; first is the number of engine round trips made before it
\* starts.
NewFrame(fn, cont, operation, resourceID, first) == [NoFrame EXCEPT !.fn = fn, !.cont = cont, !.operation = operation, !.resourceID = resourceID, !.first = first]

FilterOff == [pc |-> "off", kind |-> "", ids |-> <<>>, data |-> <<>>, resourceControls |-> <<>>, userID |-> 0, userTeamIDs |-> {}, result |-> FilterResult(<<>>, FALSE, "pending"), repeated |-> FilterResult(<<>>, FALSE, "pending"), again |-> FilterResult(<<>>, FALSE, "pending")]

Init ==
    /\ registry = <<>>
    /\ memberships \in Memberships
    /\ pc = "idle"
    /\ request = NoRequest
    /\ frame = NoFrame
    /\ engine = <<>>
    /\ log = <<>>
    /\ returned = <<>>
    /\ response = Pending
    /\ filter = FilterOff

(***************************************************************************)
(* The collaborators                                                       *)
(***************************************************************************)

\* ResourceControlService.CreateResourceControl: a resource has at most one
\* record.
CreateResourceControl(rc) ==
    /\ Len(registry) < MaxControls
    /\ getResourceControlByResourceID(rc.ResourceID, registry) = Nil
    /\ registry' = Append(registry, rc)
    /\ UNCHANGED <<memberships, pc, request, frame, engine, log, returned, response, filter>>

\* ResourceControlService.DeleteResourceControl: the i-th record is removed.
DeleteResourceControl(i) ==
    /\ i \in DOMAIN registry
    /\ registry' = SubSeq(registry, 1, i - 1) \o SubSeq(registry, i + 1, Len(registry))
    /\ UNCHANGED <<memberships, pc, request, frame, engine, log, returned, response, filter>>

\* p.dockerTransport.RoundTrip(request): one round trip to the engine, whose
\* result is out.
executeDockerRequest(out) ==
    /\ out \in EngineOutcomes(request, Len(engine) + 1)
    /\ engine' = Append(engine, out)
    /\ log' = Append(log, "executeDockerRequest")

\* A collaborator other than the engine is called.
Call(name) == log' = Append(log, name) /\ UNCHANGED engine

(***************************************************************************)
(* transport.go: how a strategy's result is used                           *)
(***************************************************************************)

\* What a returned invocation leaves behind: its locals, its result, and the
\* engine round trips made before it (first) and up to its return (last).
Invocation(fr, result) == [fn |-> fr.fn, operation |-> fr.operation, isAdmin |-> fr.isAdmin, resourceID |-> fr.resourceID, tokenData |-> fr.tokenData, userTeamIDs |-> fr.userTeamIDs, resourceControls |-> fr.resourceControls, read |-> fr.read, first |-> fr.first, last |-> Len(engine'), result |-> result]

\* The strategy goes on to its next step.
Goto(label, fr) ==
    /\ pc' = label
    /\ frame' = fr
    /\ UNCHANGED <<returned, response>>

\* proxyVolumeRequest, lines 75-79: the strategy's result is what
\* proxyDockerRequest returns.
ReturnToCaller(result) ==
    /\ frame.cont = "return"
    /\ pc' = "done"
    /\ frame' = NoFrame
    /\ response' = result

\* proxyVolumeRequest, lines 83-87: the result of rewriteOperation is dropped
\* and restrictedOperation is called with the last path segment.
DropThenRestrict ==
    /\ frame.cont = "line 84"
    /\ pc' = "token"
    /\ frame' = NewFrame("restrictedOperation", "line 87", "none", Base(request.Path), Len(engine'))
    /\ UNCHANGED response

\* proxyVolumeRequest, lines 87-89: the result of restrictedOperation is
\* dropped and the switch is left.
DropThenExecute ==
    /\ frame.cont = "line 87"
    /\ pc' = "line 89"
    /\ frame' = NoFrame
    /\ UNCHANGED response

\* The strategy returns result to proxyVolumeRequest; fr holds its locals.
Return(result, fr) ==
    /\ returned' = Append(returned, Invocation(fr, result))
    /\ (ReturnToCaller(result) \/ DropThenRestrict \/ DropThenExecute)

(***************************************************************************)
(* transport.go: the dispatcher                                            *)
(***************************************************************************)

\* A faulty variant of proxyDockerRequest: a request under /containers is
\* handed to proxyVolumeRequest.
proxyDockerRequest_Misrouted(req) ==
    /\ pc \in {"idle", "done"}
    /\ request' = req
    /\ frame' = NoFrame
    /\ engine' = <<>>
    /\ log' = <<>>
    /\ returned' = <<>>
    /\ response' = Pending
    /\ pc' = IF HasPrefix(req.Path, "containers") THEN "proxyVolumeRequest"
             ELSE IF HasPrefix(req.Path, "services") THEN "proxyServiceRequest"
             ELSE IF HasPrefix(req.Path, "volumes") THEN "proxyVolumeRequest"
             ELSE "line 59"
    /\ UNCHANGED <<registry, memberships, filter>>

\* RoundTrip and proxyDockerRequest, lines 48-57: a request arrives and is
\* classified by its path prefix.
proxyDockerRequest(req) ==
    /\ pc \in {"idle", "done"}
    /\ request' = req
    /\ frame' = NoFrame
    /\ engine' = <<>>
    /\ log' = <<>>
    /\ returned' = <<>>
    /\ response' = Pending
    /\ pc' = IF HasPrefix(req.Path, "containers") THEN "proxyContainerRequest"
             ELSE IF HasPrefix(req.Path, "services") THEN "proxyServiceRequest"
             ELSE IF HasPrefix(req.Path, "volumes") THEN "proxyVolumeRequest"
             ELSE "line 59"
    /\ UNCHANGED <<registry, memberships, filter>>

\* return p.executeDockerRequest(request): the engine's result is the result.
PassThrough(label) ==
    /\ pc = label
    /\ \E out \in EngineOutcomes(request, Len(engine) + 1) :
          /\ executeDockerRequest(out)
          /\ response' = out
    /\ pc' = "done"
    /\ UNCHANGED <<registry, memberships, request, frame, returned, filter>>

\* proxyDockerRequest, line 59.
proxyDockerRequest_execute == PassThrough("line 59")

proxyContainerRequest == PassThrough("proxyContainerRequest")

proxyServiceRequest == PassThrough("proxyServiceRequest")

\* proxyVolumeRequest, lines 71-87: the switch on the path.
proxyVolumeRequest ==
    /\ pc = "proxyVolumeRequest"
    /\ \/ /\ request.Path = <<"volumes", "create">>
          /\ \E out \in EngineOutcomes(request, Len(engine) + 1) :
                /\ executeDockerRequest(out)
                /\ response' = out
          /\ pc' = "done"
          /\ UNCHANGED <<frame, returned>>
       \/ /\ request.Path = <<"volumes", "prune">>
          /\ Goto("token", NewFrame("administratorOperation", "return", "none", "", Len(engine)))
          /\ UNCHANGED <<engine, log>>
       \/ /\ request.Path = <<"volumes">>
          /\ Goto("token", NewFrame("rewriteOperation", "return", "volumeListOperation", "", Len(engine)))
          /\ UNCHANGED <<engine, log>>
       \/ /\ request.Path \notin {<<"volumes", "create">>, <<"volumes", "prune">>, <<"volumes">>}
          /\ request.Method = MethodGet
          /\ Goto("token", NewFrame("rewriteOperation", "line 84", "volumeInspectOperation", "", Len(engine)))
          /\ UNCHANGED <<engine, log>>
       \/ /\ request.Path \notin {<<"volumes", "create">>, <<"volumes", "prune">>, <<"volumes">>}
          /\ request.Method # MethodGet
          /\ Goto("token", NewFrame("restrictedOperation", "line 87", "none", Base(request.Path), Len(engine)))
          /\ UNCHANGED <<engine, log>>
    /\ UNCHANGED <<registry, memberships, request, filter>>

\* proxyVolumeRequest, line 89: the return after the switch.
proxyVolumeRequest_execute == PassThrough("line 89")

(***************************************************************************)
(* transport.go: restrictedOperation                                       *)
(***************************************************************************)

\* Lines 96-101: the token data of the request's context; an administrator
\* goes straight to the engine.
restrictedOperation_GetTokenData ==
    /\ pc = "token" /\ frame.fn = "restrictedOperation"
    /\ Call("GetTokenData")
    /\ IF request.Token = Nil
       THEN Return(Result(Nil, ErrTokenData), frame)
       ELSE LET fr == [frame EXCEPT !.tokenData = request.Token] IN
            IF request.Token.Role # AdministratorRole THEN Goto("teams", fr) ELSE Goto("engine", fr)
    /\ UNCHANGED <<registry, memberships, request, filter>>

\* Lines 103-111: the teams of the user.
restrictedOperation_TeamsByUserID ==
    /\ pc = "teams" /\ frame.fn = "restrictedOperation"
    /\ Call("TeamsByUserID")
    /\ \/ Return(Result(Nil, ErrTeamService), frame)
       \/ Goto("registry", [frame EXCEPT !.userTeamIDs = memberships[frame.tokenData.ID]])
    /\ UNCHANGED <<registry, memberships, request, filter>>

\* A faulty variant of restrictedAccess: the negation of line 119 is lost.
restrictedAccess_Inverted(tokenData, userTeamIDs, resourceID, resourceControls) ==
    ~canUserAccessResource(tokenData.ID, userTeamIDs, getResourceControlByResourceID(resourceID, resourceControls))

\* A faulty variant of restrictedAccess: the teams of the user are not
\* handed to the access decision.
restrictedAccess_IgnoresTeams(tokenData, userTeamIDs, resourceID, resourceControls) ==
    canUserAccessResource(tokenData.ID, {}, getResourceControlByResourceID(resourceID, resourceControls))

\* Lines 118-119: whether the user may operate on resourceID, given the
\* records read.
restrictedAccess(tokenData, userTeamIDs, resourceID, resourceControls) ==
    canUserAccessResource(tokenData.ID, userTeamIDs, getResourceControlByResourceID(resourceID, resourceControls))

\* A faulty variant of restrictedOperation_ResourceControls: the decision is
\* taken on the records the transport held when it was made, not on those of
\* the registry.
restrictedOperation_ResourceControls_Cached ==
    /\ pc = "registry" /\ frame.fn = "restrictedOperation"
    /\ Call("ResourceControls")
    /\ \/ Return(Result(Nil, ErrResourceControlService), frame)
       \/ LET fr == [frame EXCEPT !.resourceControls = <<>>, !.read = TRUE] IN
          IF ~restrictedAccess(fr.tokenData, fr.userTeamIDs, fr.resourceID, fr.resourceControls)
          THEN Return(writeAccessDeniedResponse, fr)
          ELSE Goto("engine", fr)
    /\ UNCHANGED <<registry, memberships, request, filter>>

\* Lines 113-121: the records are read and the access decision is taken.
restrictedOperation_ResourceControls ==
    /\ pc = "registry" /\ frame.fn = "restrictedOperation"
    /\ Call("ResourceControls")
    /\ \/ Return(Result(Nil, ErrResourceControlService), frame)
       \/ LET fr == [frame EXCEPT !.resourceControls = registry, !.read = TRUE] IN
          IF ~restrictedAccess(fr.tokenData, fr.userTeamIDs, fr.resourceID, fr.resourceControls)
          THEN Return(writeAccessDeniedResponse, fr)
          ELSE Goto("engine", fr)
    /\ UNCHANGED <<registry, memberships, request, filter>>

\* A faulty variant of restrictedOperation_execute: after a failure the
\* request is executed again.
restrictedOperation_execute_Retry ==
    /\ pc = "engine" /\ frame.fn = "restrictedOperation"
    /\ \E out \in EngineOutcomes(request, Len(engine) + 1) :
          /\ executeDockerRequest(out)
          /\ IF out.err # NoError THEN Goto("engine", frame) ELSE Return(out, frame)
    /\ UNCHANGED <<registry, memberships, request, filter>>

\* Line 124: the request is executed and the engine's result returned.
restrictedOperation_execute ==
    /\ pc = "engine" /\ frame.fn = "restrictedOperation"
    /\ \E out \in EngineOutcomes(request, Len(engine) + 1) :
          /\ executeDockerRequest(out)
          /\ Return(out, frame)
    /\ UNCHANGED <<registry, memberships, request, filter>>

(***************************************************************************)
(* transport.go: rewriteOperation                                          *)
(***************************************************************************)

\* Lines 131-134.
rewriteOperation_GetTokenData ==
    /\ pc = "token" /\ frame.fn = "rewriteOperation"
    /\ Call("GetTokenData")
    /\ IF request.Token = Nil
       THEN Return(Result(Nil, ErrTokenData), frame)
       ELSE Goto("registry", [frame EXCEPT !.tokenData = request.Token])
    /\ UNCHANGED <<registry, memberships, request, filter>>

\* A faulty variant of contextIsAdmin: the field is never set.
contextIsAdmin_NeverSet(tokenData) == FALSE

\* Lines 142, 147-148: the isAdmin field of the operation context.
contextIsAdmin(tokenData) == ~(tokenData.Role # AdministratorRole)

\* Lines 136-148: the records are read and the operation context is made.
rewriteOperation_ResourceControls ==
    /\ pc = "registry" /\ frame.fn = "rewriteOperation"
    /\ Call("ResourceControls")
    /\ \/ Return(Result(Nil, ErrResourceControlService), frame)
       \/ LET fr == [frame EXCEPT !.resourceControls = registry, !.read = TRUE, !.isAdmin = contextIsAdmin(frame.tokenData)] IN
          IF frame.tokenData.Role # AdministratorRole THEN Goto("teams", fr) ELSE Goto("engine", fr)
    /\ UNCHANGED <<registry, memberships, request, filter>>

\* Lines 150-159: the teams of a user who is no administrator.
rewriteOperation_TeamsByUserID ==
    /\ pc = "teams" /\ frame.fn = "rewriteOperation"
    /\ Call("TeamsByUserID")
    /\ \/ Return(Result(Nil, ErrTeamService), frame)
       \/ Goto("engine", [frame EXCEPT !.userTeamIDs = memberships[frame.tokenData.ID]])
    /\ UNCHANGED <<registry, memberships, request, filter>>

\* Lines 162-165: the request is executed; an error of the engine is returned.
rewriteOperation_execute ==
    /\ pc = "engine" /\ frame.fn = "rewriteOperation"
    /\ \E out \in EngineOutcomes(request, Len(engine) + 1) :
          /\ executeDockerRequest(out)
          /\ IF out.err # NoError
             THEN Return(out, frame)
             ELSE Goto("operation", [frame EXCEPT !.response = out.response])
    /\ UNCHANGED <<registry, memberships, request, filter>>

\* The restrictedOperationContext of lines 141-145 and 159.
OperationContext(fr) == [isAdmin |-> fr.isAdmin, userID |-> fr.tokenData.ID, userTeamIDs |-> fr.userTeamIDs, resourceControls |-> fr.resourceControls]

\* A faulty variant of rewriteOperation_operation: the callback's error is
\* not returned.
rewriteOperation_operation_ErrorDropped ==
    /\ pc = "operation" /\ frame.fn = "rewriteOperation"
    /\ Call("operation")
    /\ Return(Result(ApplyOperation(frame.operation, request, frame.response, OperationContext(frame)).response, NoError), frame)
    /\ UNCHANGED <<registry, memberships, request, filter>>

\* Lines 167-168: the callback rewrites the response, which is returned with
\* the callback's error.
rewriteOperation_operation ==
    /\ pc = "operation" /\ frame.fn = "rewriteOperation"
    /\ Call("operation")
    /\ Return(ApplyOperation(frame.operation, request, frame.response, OperationContext(frame)), frame)
    /\ UNCHANGED <<registry, memberships, request, filter>>

(***************************************************************************)
(* transport.go: administratorOperation                                    *)
(***************************************************************************)

\* A faulty variant of administratorOperation_GetTokenData: the role check of
\* line 179 is lost.
administratorOperation_NoRoleCheck ==
    /\ pc = "token" /\ frame.fn = "administratorOperation"
    /\ Call("GetTokenData")
    /\ IF request.Token = Nil
       THEN Return(Result(Nil, ErrTokenData), frame)
       ELSE Goto("engine", [frame EXCEPT !.tokenData = request.Token])
    /\ UNCHANGED <<registry, memberships, request, filter>>

\* Lines 174-181.
administratorOperation_GetTokenData ==
    /\ pc = "token" /\ frame.fn = "administratorOperation"
    /\ Call("GetTokenData")
    /\ IF request.Token = Nil
       THEN Return(Result(Nil, ErrTokenData), frame)
       ELSE LET fr == [frame EXCEPT !.tokenData = request.Token] IN
            IF request.Token.Role # AdministratorRole
            THEN Return(writeAccessDeniedResponse, fr)
            ELSE Goto("engine", fr)
    /\ UNCHANGED <<registry, memberships, request, filter>>

\* Line 183.
administratorOperation_execute ==
    /\ pc = "engine" /\ frame.fn = "administratorOperation"
    /\ \E out \in EngineOutcomes(request, Len(engine) + 1) :
          /\ executeDockerRequest(out)
          /\ Return(out, frame)
    /\ UNCHANGED <<registry, memberships, request, filter>>

(***************************************************************************)
(* The proxy's specification                                               *)
(***************************************************************************)

Next ==
    \/ \E rc \in RegistryControls : CreateResourceControl(rc)
    \/ \E i \in 1..Cardinality(ResourceIDs) : DeleteResourceControl(i)
    \/ \E req \in Requests : proxyDockerRequest(req)
    \/ proxyDockerRequest_execute
    \/ proxyContainerRequest
    \/ proxyServiceRequest
    \/ proxyVolumeRequest
    \/ proxyVolumeRequest_execute
    \/ restrictedOperation_GetTokenData
    \/ restrictedOperation_TeamsByUserID
    \/ restrictedOperation_ResourceControls
    \/ restrictedOperation_execute
    \/ rewriteOperation_GetTokenData
    \/ rewriteOperation_ResourceControls
    \/ rewriteOperation_TeamsByUserID
    \/ rewriteOperation_execute
    \/ rewriteOperation_operation
    \/ administratorOperation_GetTokenData
    \/ administratorOperation_execute

Spec == Init /\ [][Next]_vars

(***************************************************************************)
(* The list filters on bounded inputs                                      *)
(***************************************************************************)

\* The sequences over S of at most n elements.
SeqsUpTo(S, n) == UNION {[1..k -> S] : k \in 0..n}

\* The records handed to a filter.
FilterControls == {ResourceControl(r, u, t) : r \in ResourceIDs, u \in {{}, {1}}, t \in {{}, {1}}}

\* The record lists handed to a filter: at most one record for a resource.
FilterControlLists == {rcs \in SeqsUpTo(FilterControls, Cardinality(ResourceIDs)) : \A i, j \in DOMAIN rcs : rcs[i].ResourceID = rcs[j].ResourceID => i = j}

\* The documents of ids, for the kind whose identifier field is identifier.
Documents(identifier, ids) == [i \in DOMAIN ids |-> Document(identifier, ids[i])]

FilterInit ==
    /\ registry = <<>>
    /\ memberships \in Memberships
    /\ pc = "idle"
    /\ request = NoRequest
    /\ frame = NoFrame
    /\ engine = <<>>
    /\ log = <<>>
    /\ returned = <<>>
    /\ response = Pending
    /\ \E ids \in SeqsUpTo(ResourceIDs \cup {Absent}, MaxLen), rcs \in FilterControlLists, userID \in UserIDs, userTeamIDs \in SUBSET TeamIDs :
          filter = [FilterOff EXCEPT !.pc = "input", !.ids = ids, !.resourceControls = rcs, !.userID = userID, !.userTeamIDs = userTeamIDs]

\* A filter is applied to the input: kind names it, data is its first
\* argument, result is what it returns.
Filtered(kind, data, result) ==
    /\ filter.pc = "input"
    /\ filter' = [filter EXCEPT !.pc = "returned", !.kind = kind, !.data = data, !.result = result]
    /\ UNCHANGED proxyVars

CallFilterVolumeList ==
    LET volumeData == Documents(volumeIdentifier, filter.ids) IN
    Filtered("volume", volumeData, filterVolumeList(volumeData, filter.resourceControls, filter.userID, filter.userTeamIDs))

CallFilterContainerList ==
    LET containerData == Documents(containerIdentifier, filter.ids) IN
    Filtered("container", containerData, filterContainerList(containerData, filter.resourceControls, filter.userID, filter.userTeamIDs))

CallFilterServiceList ==
    LET serviceData == Documents(serviceIdentifier, filter.ids) IN
    Filtered("service", serviceData, filterServiceList(serviceData, filter.resourceControls, filter.userID, filter.userTeamIDs))

\* The filter of kind, applied to data.
ApplyFilter(kind, data, resourceControls, userID, userTeamIDs) ==
    IF kind = "volume" THEN filterVolumeList(data, resourceControls, userID, userTeamIDs)
    ELSE IF kind = "container" THEN filterContainerList(data, resourceControls, userID, userTeamIDs)
    ELSE filterServiceList(data, resourceControls, userID, userTeamIDs)

\* The filter that returned is applied twice more with the same records, user
\* and teams: to the same input (repeated) and to the list it returned (again).
CallFilterAgain ==
    /\ filter.pc = "returned"
    /\ filter' = [filter EXCEPT !.pc = "refiltered",
                                !.repeated = ApplyFilter(filter.kind, filter.data, filter.resourceControls, filter.userID, filter.userTeamIDs),
                                !.again = ApplyFilter(filter.kind, filter.result.data, filter.resourceControls, filter.userID, filter.userTeamIDs)]
    /\ UNCHANGED proxyVars

FilterNext == CallFilterVolumeList \/ CallFilterContainerList \/ CallFilterServiceList \/ CallFilterAgain

FilterSpec == FilterInit /\ [][FilterNext]_vars

(***************************************************************************)
(* Properties of the proxy (Spec)                                          *)
(***************************************************************************)

\* proxyDockerRequest has returned for the request.
Done == pc = "done"

\* The request carries the token data of a user who is no administrator.
StandardCaller == request.Token # Nil /\ request.Token.Role # AdministratorRole

AdministratorCaller == request.Token # Nil /\ request.Token.Role = AdministratorRole

\* The request's path is /volumes/{id}.
VolumeByID == HasPrefix(request.Path, "volumes") /\ Len(request.Path) = 2 /\ Base(request.Path) \in ResourceIDs

VolumePrune == request.Path = <<"volumes", "prune">>

VolumeList == request.Path = <<"volumes">>

\* The invocations of strategy fn that returned while this request was handled.
Invocations(fn) == {i \in DOMAIN returned : returned[i].fn = fn}

\* resourceControls holds a record for resourceID that lists neither userID
\* nor any of userTeamIDs.
Excluded(userID, userTeamIDs, resourceID, resourceControls) ==
    \E k \in DOMAIN resourceControls :
        /\ resourceControls[k].ResourceID = resourceID
        /\ userID \notin resourceControls[k].Users
        /\ userTeamIDs \cap resourceControls[k].Teams = {}

\* The invocation read the records, and they exclude the request's caller
\* from the volume the request names.
ReadExcluded(inv) ==
    /\ inv.read
    /\ Excluded(request.Token.ID, memberships[request.Token.ID], Base(request.Path), inv.resourceControls)

\* C1: a request on /volumes/{id} with a method other than GET, by a standard
\* user whom the record of {id} excludes, is answered with the forbidden
\* response and the engine is never called while it is handled.
C1_DeniedBeforeExecute ==
    (/\ VolumeByID /\ request.Method # MethodGet /\ StandardCaller
     /\ \E i \in Invocations("restrictedOperation") : ReadExcluded(returned[i]))
    => /\ Len(engine) = 0
       /\ Done => response = writeAccessDeniedResponse

\* C2: a request on /volumes/prune by a caller who is no administrator is
\* answered with the forbidden response and never reaches the engine; by an
\* administrator it reaches the engine exactly once and the engine's result is
\* returned as it is.
C2_PruneAdministratorOnly ==
    VolumePrune =>
       /\ StandardCaller => (Len(engine) = 0 /\ (Done => response = writeAccessDeniedResponse))
       /\ AdministratorCaller => (Len(engine) <= 1 /\ (Done => (Len(engine) = 1 /\ response = engine[1])))

\* C2's case: a standard user's prune request has been answered.
C2_Witness == Done /\ VolumePrune /\ StandardCaller /\ response = writeAccessDeniedResponse

\* The response carries a document whose identifier is id.
CarriesVolume(result, id) ==
    /\ result.response # Nil
    /\ \E k \in DOMAIN result.response.Body :
          /\ volumeIdentifier \in DOMAIN result.response.Body[k]
          /\ result.response.Body[k][volumeIdentifier] = id

\* C3: the answer to GET /volumes/{id} by a standard user whom the record of
\* {id} excludes never carries the engine's document for {id} (here: when
\* both strategies read that record and returned without an error).
C3_InspectHidesExcluded ==
    (/\ Done /\ VolumeByID /\ request.Method = MethodGet /\ StandardCaller
     /\ Invocations("rewriteOperation") # {} /\ Invocations("restrictedOperation") # {}
     /\ \A i \in DOMAIN returned : ReadExcluded(returned[i]) /\ returned[i].result.err = NoError)
    => ~CarriesVolume(response, Base(request.Path))

\* The access decision of an invocation of restrictedOperation that read the
\* records.
Allows(inv) == canUserAccessResource(inv.tokenData.ID, inv.userTeamIDs, getResourceControlByResourceID(inv.resourceID, inv.resourceControls))

\* The invocation did not call the engine.
NoEngineCall(inv) == inv.last = inv.first

\* The invocation called the engine once and returned what the engine returned.
ForwardedVerbatim(inv) == inv.last = inv.first + 1 /\ inv.result = engine[inv.last]

\* C4: an invocation of restrictedOperation whose access decision denies
\* returns the forbidden response without calling the engine; for an
\* administrator, for a resource without a record, and when the access decision
\* allows, it calls the engine once and returns the engine's result as it is.
C4_RestrictBeforeExecute ==
    \A i \in Invocations("restrictedOperation") :
        LET inv == returned[i] IN
        /\ (inv.read /\ ~Allows(inv)) => (inv.result = writeAccessDeniedResponse /\ NoEngineCall(inv))
        /\ (inv.tokenData # Nil /\ inv.tokenData.Role = AdministratorRole) => ForwardedVerbatim(inv)
        /\ (inv.read /\ getResourceControlByResourceID(inv.resourceID, inv.resourceControls) = Nil) => ForwardedVerbatim(inv)
        /\ (inv.read /\ Allows(inv)) => ForwardedVerbatim(inv)

\* C4's case: an invocation found a record that allows the user and got a
\* response from the engine.
C4_Witness ==
    \E i \in Invocations("restrictedOperation") :
        /\ returned[i].read
        /\ getResourceControlByResourceID(returned[i].resourceID, returned[i].resourceControls) # Nil
        /\ Allows(returned[i])
        /\ returned[i].result.err = NoError

\* The errors of identity resolution and of the two lookups.
LookupErrors == {ErrTokenData, ErrTeamService, ErrResourceControlService}

\* C5: when identity resolution, the team lookup or the registry lookup fails
\* in restrictedOperation or administratorOperation, the request ends with that
\* error and the engine is never called while it is handled.
C5_LookupFailureAborts ==
    (/\ Done
     /\ \E i \in Invocations("restrictedOperation") \cup Invocations("administratorOperation") : returned[i].result.err \in LookupErrors)
    => /\ response.err \in LookupErrors
       /\ response.response = Nil
       /\ Len(engine) = 0

(***************************************************************************)
(* Properties of the list filters (FilterSpec) and of the list request     *)
(***************************************************************************)

\* A filter has returned.
FilterReturned == filter.pc = "returned"

\* The identifier field and the error of the filter applied.
IdentifierOf(kind) == IF kind = "volume" THEN volumeIdentifier ELSE IF kind = "container" THEN containerIdentifier ELSE serviceIdentifier

NotFoundOf(kind) == IF kind = "volume" THEN ErrDockerVolumeIdentifierNotFound ELSE IF kind = "container" THEN ErrDockerContainerIdentifierNotFound ELSE ErrDockerServiceIdentifierNotFound

\* Every document of the filter's input carries its identifier.
AllIdentified == \A i \in DOMAIN filter.data : IdentifierOf(filter.kind) \in DOMAIN filter.data[i]

\* The identifier of the i-th document of list.
IdentifierAt(list, i) == list[i][IdentifierOf(filter.kind)]

\* No record of resourceControls is for resourceID.
NoRecord(resourceID, resourceControls) == \A k \in DOMAIN resourceControls : resourceControls[k].ResourceID # resourceID

\* The document without its ownership decoration.
Undecorated(object) == [f \in DOMAIN object \ {"Portainer"} |-> object[f]]

\* C6: the list a filter returns holds no document with a record that lists
\* neither the caller nor any of the caller's teams.
C6_NoExcludedDocument ==
    FilterReturned =>
        \A k \in DOMAIN filter.result.data :
            ~Excluded(filter.userID, filter.userTeamIDs, IdentifierAt(filter.result.data, k), filter.resourceControls)

\* C6's case: of two documents, one is excluded and the other is returned.
C6_Witness ==
    /\ FilterReturned /\ AllIdentified
    /\ Len(filter.data) = 2 /\ Len(filter.result.data) = 1
    /\ \E i \in DOMAIN filter.data : Excluded(filter.userID, filter.userTeamIDs, IdentifierAt(filter.data, i), filter.resourceControls)

\* Every input document without a record is in the returned list, as it was.
PublicDocumentsKept ==
    \A i \in DOMAIN filter.data :
        (/\ IdentifierOf(filter.kind) \in DOMAIN filter.data[i]
         /\ NoRecord(IdentifierAt(filter.data, i), filter.resourceControls))
        => \E k \in DOMAIN filter.result.data : filter.result.data[k] = filter.data[i]

\* C7 as stated: for every input list, every input document without a record
\* is in the filter's output, unchanged and undecorated.
C7_PublicAlwaysKept == FilterReturned => PublicDocumentsKept

\* C7, amended: when every document of the input carries its identifier, every
\* input document without a record is in the filter's output, unchanged and
\* undecorated.
C7_PublicKeptWhenIdentified == (FilterReturned /\ AllIdentified) => PublicDocumentsKept

\* C7's case: a document without a record beside one with a record.
C7_Witness ==
    /\ FilterReturned /\ AllIdentified
    /\ \E i, j \in DOMAIN filter.data :
          /\ NoRecord(IdentifierAt(filter.data, i), filter.resourceControls)
          /\ ~NoRecord(IdentifierAt(filter.data, j), filter.resourceControls)
    /\ filter.result.data # <<>>

C9_MissingIdentifierFails ==
    (FilterReturned /\ ~AllIdentified) =>
        /\ filter.result.isNil
        /\ filter.result.data = <<>>
        /\ filter.result.err = NotFoundOf(filter.kind)

\* C9's case: the document without identifier follows one that would be kept.
C9_Witness ==
    /\ FilterReturned /\ Len(filter.data) = 2
    /\ IdentifierOf(filter.kind) \in DOMAIN filter.data[1]
    /\ NoRecord(IdentifierAt(filter.data, 1), filter.resourceControls)
    /\ IdentifierOf(filter.kind) \notin DOMAIN filter.data[2]
    /\ filter.result.isNil

RECURSIVE IsSubsequence(_, _)
\* a is b with some elements left out.
IsSubsequence(a, b) ==
    IF a = <<>> THEN TRUE
    ELSE IF b = <<>> THEN FALSE
    ELSE IF Head(a) = Head(b) THEN IsSubsequence(Tail(a), Tail(b))
    ELSE IsSubsequence(a, Tail(b))

UndecoratedList(list) == [i \in DOMAIN list |-> Undecorated(list[i])]

\* C10: for a list of N documents that all carry an identifier the filter
\* returns a list of at most N documents, which are documents of the input in
\* the input's order.
C10_OrderedSublist ==
    (FilterReturned /\ AllIdentified) =>
        /\ ~filter.result.isNil /\ filter.result.err = NoError
        /\ Len(filter.result.data) <= Len(filter.data)
        /\ IsSubsequence(UndecoratedList(filter.result.data), filter.data)

\* C10's case: two different documents are both kept.
C10_Witness ==
    /\ FilterReturned /\ AllIdentified
    /\ Len(filter.data) = 2 /\ filter.data[1] # filter.data[2]
    /\ Len(filter.result.data) = 2

\* A filter has been applied again to its input and to its output.
Refiltered == filter.pc = "refiltered"

\* The identifiers of the documents of list, in order.
IdentifiersOf(list) == [i \in DOMAIN list |-> IdentifierAt(list, i)]

\* C11: with the same records, user and teams, a second application of the
\* filter to the same input returns what the first returned, and its
\* application to the list the first returned keeps the same identifiers in
\* the same order.
C11_DeterministicIdempotent ==
    Refiltered =>
        /\ filter.repeated = filter.result
        /\ filter.result.err = NoError =>
              /\ filter.again.err = NoError /\ ~filter.again.isNil
              /\ IdentifiersOf(filter.again.data) = IdentifiersOf(filter.result.data)

\* C11's case: the list filtered again holds a decorated document, and the
\* first application dropped another.
C11_Witness ==
    /\ Refiltered /\ filter.result.err = NoError
    /\ Len(filter.data) = 2 /\ Len(filter.result.data) = 1
    /\ "Portainer" \in DOMAIN filter.result.data[1]
    /\ Len(filter.again.data) = 1

(***************************************************************************)
(* Properties of the strategies and of the dispatcher (Spec)               *)
(***************************************************************************)

\* The engine round trips made during the invocation.
EngineCalls(inv) == inv.last - inv.first

\* C12: every invocation of rewriteOperation contacts the engine, whatever
\* identity resolution, the registry lookup and the team lookup return.
C12_AlwaysExecutes == \A i \in Invocations("rewriteOperation") : EngineCalls(returned[i]) = 1

\* This step calls ResourceControlService.ResourceControls.
ReadsRecords == log' = Append(log, "ResourceControls")

\* The invocation that returns in this step.
Returning == returned'[Len(returned')]

\* C13: the records a strategy evaluates are those the registry holds at the
\* step of this request that reads them: the read stores the registry's
\* content of that moment, restrictedOperation decides on it in the same
\* step, and the context of rewriteOperation keeps it until the callback.
C13_FreshRegistryRead ==
    [][/\ ReadsRecords =>
            \/ /\ pc' \in {"teams", "engine"}
               /\ frame'.read /\ frame'.resourceControls = registry
            \/ /\ Len(returned') = Len(returned) + 1
               /\ \/ ~Returning.read /\ Returning.result.err = ErrResourceControlService
                  \/ /\ Returning.read /\ Returning.resourceControls = registry
                     /\ Returning.fn = "restrictedOperation"
                     /\ Returning.result = writeAccessDeniedResponse
                     /\ ~restrictedAccess(Returning.tokenData, Returning.userTeamIDs, Returning.resourceID, registry)
       /\ (frame.read /\ frame'.read) => frame'.resourceControls = frame.resourceControls
       /\ (frame.read /\ Len(returned') = Len(returned) + 1) => (Returning.read /\ Returning.resourceControls = frame.resourceControls)
       /\ (~frame.read /\ frame'.read) => ReadsRecords
      ]_vars

\* C13's case: while GET /volumes/{id} was handled, a record was created
\* between the read of rewriteOperation and the read of restrictedOperation,
\* and restrictedOperation denied on the record it read.
C13_Witness ==
    /\ Len(returned) = 2
    /\ returned[1].read /\ returned[2].read
    /\ returned[1].resourceControls = <<>>
    /\ returned[2].resourceControls # <<>>
    /\ returned[2].result = writeAccessDeniedResponse

\* filterVolumeList keeps the document of resourceID.
Keeps(resourceID, resourceControls, userID, userTeamIDs) ==
    filterVolumeList(<<Document(volumeIdentifier, resourceID)>>, resourceControls, userID, userTeamIDs).data # <<>>

\* The invocation of restrictedOperation went on to the engine.
RestrictAllowed(inv) == EngineCalls(inv) = 1

\* The invocation is an administrator's.
ByAdministrator(inv) == inv.tokenData # Nil /\ inv.tokenData.Role = AdministratorRole

CallbackCalls == {k \in DOMAIN log : log[k] = "operation"}

\* C15: in rewriteOperation the callback is invoked at most once, right after
\* an engine call that succeeded; when the engine call fails the invocation
\* returns the engine's result and the callback is not invoked; when it
\* succeeds the invocation returns what the callback returns, its error
\* included.
C15_CallbackAfterEngineSuccess ==
    /\ Cardinality(CallbackCalls) <= 1
    /\ \A k \in CallbackCalls : k > 1 /\ log[k - 1] = "executeDockerRequest" /\ engine[1].err = NoError
    /\ \A i \in Invocations("rewriteOperation") :
          LET inv == returned[i] IN
          EngineCalls(inv) = 1 =>
              IF engine[inv.last].err # NoError
              THEN inv.result = engine[inv.last] /\ CallbackCalls = {}
              ELSE /\ Cardinality(CallbackCalls) = 1
                   /\ inv.result = ApplyOperation(inv.operation, request, engine[inv.last].response, OperationContext(inv))

\* C15's case: the callback failed on a document without identifier, and its
\* error is the invocation's.
C15_Witness ==
    \E i \in Invocations("rewriteOperation") :
        /\ EngineCalls(returned[i]) = 1 /\ engine[returned[i].last].err = NoError
        /\ returned[i].result.err = ErrDockerVolumeIdentifierNotFound

\* C16: while one request is handled, the engine is contacted at most once.
C16_OneEngineCallPerRequest == Len(engine) <= 1

\* A strategy is being invoked.
InProgress == frame.fn # "none"

\* C17: an invocation of a strategy makes at most one engine round trip, and
\* when that round trip fails the invocation has returned, with no other
\* attempt.
C17_OneAttemptPerInvocation ==
    /\ \A i \in DOMAIN returned : EngineCalls(returned[i]) <= 1
    /\ InProgress => Len(engine) - frame.first <= 1
    /\ (InProgress /\ Len(engine) > frame.first) => engine[Len(engine)].err = NoError

\* C17's case: the engine call of an invocation of restrictedOperation has
\* failed, and the invocation returned the failure after that one attempt.
C17_Witness ==
    \E i \in Invocations("restrictedOperation") :
        /\ EngineCalls(returned[i]) = 1
        /\ returned[i].result = Result(Nil, ErrEngineTransport)

\* A request is being handled or has been answered.
Arrived == pc # "idle"

\* The request's path is not under /volumes, or it is /volumes/create.
PlainRequest == ~HasPrefix(request.Path, "volumes") \/ request.Path = <<"volumes", "create">>

\* C18: a request that is unclassified, under /containers or /services, or
\* /volumes/create is passed through for every caller: no strategy is invoked
\* and no collaborator but the engine is called, the engine is called once,
\* and its result is returned as it is.
C18_PlainPassThrough ==
    (Arrived /\ PlainRequest) =>
        /\ returned = <<>> /\ ~InProgress
        /\ \A k \in DOMAIN log : log[k] = "executeDockerRequest"
        /\ Len(engine) <= 1
        /\ Done => (Len(engine) = 1 /\ response = engine[1])

\* C18's case: /volumes/create by a standard user has been answered by the
\* engine.
C18_Witness ==
    /\ Done /\ request.Path = <<"volumes", "create">> /\ StandardCaller
    /\ Len(engine) = 1 /\ response.err = NoError

(***************************************************************************)
(* Decoration by the list filters (FilterSpec)                             *)
(***************************************************************************)

\* object is a document of the filter's input.
InInput(object) == \E i \in DOMAIN filter.data : filter.data[i] = object

\* C19: a document of the list a filter returns carries the ownership
\* decoration if and only if a record matches its identifier; with a record,
\* which then allows the caller, it is the input document with the record's
\* users and teams merged into it, and without one it is the input document.
C19_DecoratedIffRecord ==
    FilterReturned =>
        \A k \in DOMAIN filter.result.data :
            LET object == filter.result.data[k]
                resourceControl == getResourceControlByResourceID(IdentifierAt(filter.result.data, k), filter.resourceControls)
            IN /\ "Portainer" \in DOMAIN object <=> resourceControl # Nil
               /\ resourceControl = Nil => InInput(object)
               /\ resourceControl # Nil =>
                     /\ canUserAccessResource(filter.userID, filter.userTeamIDs, resourceControl)
                     /\ object["Portainer"] = Decoration(resourceControl)
                     /\ InInput(Undecorated(object))

\* C19's case: a user of team 1, the volumes v1 and v2, and a record on v2
\* for team 1: v1 is returned as it is, followed by v2 with team 1 merged in.
C19_Witness ==
    /\ FilterReturned /\ filter.kind = "volume"
    /\ filter.userTeamIDs = {1}
    /\ filter.data = <<Document(volumeIdentifier, "v1"), Document(volumeIdentifier, "v2")>>
    /\ filter.resourceControls = <<ResourceControl("v2", {}, {1})>>
    /\ filter.result.data = <<Document(volumeIdentifier, "v1"), decorateObject(Document(volumeIdentifier, "v2"), ResourceControl("v2", {}, {1}))>>
    /\ filter.result.data[2]["Portainer"].ResourceControl.Teams = {1}

====
